---- MODULE Spec2Model ----
(***************************************************************************)
(* Model of the symbols-mcp-server repository:                             *)
(*   - the upstream gateway POST /api/chat, in its two implementations     *)
(*     (Flask `chat` in proxy_api.py, FastAPI `proxy_chat` in server.py);  *)
(*   - the generation tools' single outbound call (_call_openrouter);      *)
(*   - the documentation lookup search_symbols_docs.                       *)
(* Python strings are sequences of one-character strings; JSON texts are   *)
(* sequences of tokens.                                                    *)
(***************************************************************************)
EXTENDS Integers, Sequences, FiniteSets, TLC

VARIABLES
    env,       \* process configuration (environment variables)
    files,     \* the skills directory in iteration order: <<[name, content]>>
    upstream,  \* how the remote service answers the operation's outbound call
    req,       \* the operation under way and its parameters
    pc,        \* position of the handler: "ready", "awaiting", "done"
    sent,      \* outbound HTTP calls made by the operation, in order
    SYMBOLS_CONTEXT, \* the module-level cache _SYMBOLS_CONTEXT
    locals,    \* the handler's local variables kept across its await
    out        \* what the operation ended in (response, return value, exception)

vars == <<env, files, upstream, req, pc, sent, SYMBOLS_CONTEXT, locals, out>>

(***************************************************************************)
(* Bounds of the model.                                                    *)
(***************************************************************************)
MaxJsonLen == 5     \* longest upstream body enumerated token by token
MaxQueryLen == 5    \* longest query enumerated character by character
MaxDocs == 3        \* most documents in an enumerated directory
MaxLines == 3       \* most lines in an enumerated short document

(***************************************************************************)
(* Python str helpers (str = sequence of characters).                      *)
(***************************************************************************)
Max(a, b) == IF a >= b THEN a ELSE b
Min(a, b) == IF a <= b THEN a ELSE b

\* s[i:j] with 0-based, already clamped indices (0 <= i, j <= len(s))
Slice(s, i, j) == IF j <= i THEN <<>> ELSE SubSeq(s, i + 1, j)

\* s.startswith(p)
StartsWith(s, p) == Len(p) <= Len(s) /\ SubSeq(s, 1, Len(p)) = p

\* p in s  (substring test)
Contains(s, p) ==
    \E i \in 0..(Len(s) - Len(p)) : SubSeq(s, i + 1, i + Len(p)) = p

\* str.lower() on one character
LowerChar(c) ==
    CASE c = "A" -> "a"
      [] c = "B" -> "b"
      [] c = "C" -> "c"
      [] c = "R" -> "r"
      [] OTHER -> c

\* str.lower()
Lower(s) == [i \in 1..Len(s) |-> LowerChar(s[i])]

\* the characters the regular expression \s matches
IsSpace(c) == c \in {" ", "\n", "\t"}

(***************************************************************************)
(* JSON texts: sequences of symbols, a string literal or a number being    *)
(* one symbol.  json.loads / json.dumps on scalars and flat objects; a     *)
(* Python dict is an insertion-ordered sequence of <<key, value>> pairs    *)
(* with distinct keys.                                                     *)
(***************************************************************************)
JsonStrings ==
    { "\"id\"", "\"ok\"", "\"choices\"", "\"error\"", "\"detail\"",
      "\"Server configuration error\"",
      "\"Invalid request - messages required\"",
      "\"Input should be a valid dictionary\"",
      "\"ConnectError\"", "\"ReadTimeout\"",
      "\"Redirect response 302\"", "\"Client error 404\"",
      "\"Server error 500\"" }

JsonNumbers == { "1", "2" }

\* "[choices]" stands for a choices array, whose message content the
\* reply carries beside its text
JsonScalars == JsonStrings \cup JsonNumbers \cup { "null", "[choices]" }

JSONDecodeError == [type |-> "JSONDecodeError", v |-> "", members |-> <<>>]

PyScalar(tok) == [type |-> "scalar", v |-> tok, members |-> <<>>]

PyDict(pairs) == [type |-> "dict", v |-> "", members |-> pairs]

\* d[k] = v on an insertion-ordered dict: a known key keeps its place
DictSet(pairs, k, v) ==
    IF \E i \in 1..Len(pairs) : pairs[i][1] = k
    THEN [i \in 1..Len(pairs) |->
            IF pairs[i][1] = k THEN <<k, v>> ELSE pairs[i]]
    ELSE Append(pairs, <<k, v>>)

\* the members of an object between its braces: t[i..], expecting a key at i
RECURSIVE ParseMembers(_, _, _)
ParseMembers(t, i, acc) ==
    IF i + 2 > Len(t) THEN JSONDecodeError
    ELSE IF ~(t[i] \in JsonStrings /\ t[i + 1] = ":" /\ t[i + 2] \in JsonScalars)
    THEN JSONDecodeError
    ELSE LET acc2 == DictSet(acc, t[i], t[i + 2]) IN
         IF i + 3 > Len(t) THEN JSONDecodeError
         ELSE IF t[i + 3] = "}"
         THEN (IF i + 3 = Len(t) THEN PyDict(acc2) ELSE JSONDecodeError)
         ELSE IF t[i + 3] = "," THEN ParseMembers(t, i + 4, acc2)
         ELSE JSONDecodeError

\* json.loads(text) / Response.json()
JsonLoads(text) ==
    LET t == SelectSeq(text, LAMBDA tok : ~IsSpace(tok)) IN
    IF Len(t) = 0 THEN JSONDecodeError
    ELSE IF Len(t) = 1
    THEN (IF t[1] \in JsonScalars THEN PyScalar(t[1]) ELSE JSONDecodeError)
    ELSE IF t[1] # "{" THEN JSONDecodeError
    ELSE IF t[2] = "}"
    THEN (IF Len(t) = 2 THEN PyDict(<<>>) ELSE JSONDecodeError)
    ELSE ParseMembers(t, 2, <<>>)

RECURSIVE DumpMembers(_, _)
DumpMembers(pairs, i) ==
    IF i > Len(pairs) THEN <<>>
    ELSE (IF i > 1 THEN <<",">> ELSE <<>>)
         \o <<pairs[i][1], ":", pairs[i][2]>>
         \o DumpMembers(pairs, i + 1)

\* json.dumps(value) as jsonify / JSONResponse render it
JsonDumps(value) ==
    IF value.type = "scalar" THEN <<value.v>>
    ELSE <<"{">> \o DumpMembers(value.members, 1) \o <<"}">>

\* == on parsed JSON values: dict equality ignores insertion order
PyEq(a, b) ==
    /\ a.type = b.type
    /\ a.v = b.v
    /\ Len(a.members) = Len(b.members)
    /\ \A i \in 1..Len(a.members) :
          \E j \in 1..Len(b.members) : a.members[i] = b.members[j]

(***************************************************************************)
(* The gateway: POST /api/chat.                                            *)
(* A request body is the Python value the framework hands to the handler:  *)
(*   [type |-> "dict", val |-> function from the keys present to values]   *)
(*   [type |-> "list", items |-> ...]   [type |-> "str", chars |-> ...]    *)
(*   [type |-> "int", n |-> ...]        [type |-> "bool", b |-> ...]       *)
(*   [type |-> "NoneType"]              (the JSON text null)               *)
(*   [type |-> "nobody"]                (no body, or a body that is not    *)
(*                                       JSON)                             *)
(***************************************************************************)
DefaultModel == "openai/gpt-4.1-mini"
DefaultMaxTokens == 4000
DefaultTemperature == "0.7"

ForwardedKeys == {"model", "messages", "max_tokens", "temperature"}
BodyKeys == ForwardedKeys \cup {"stream"}

MessagesKey == <<"m", "e", "s", "s", "a", "g", "e", "s">>

Restrict(f, K) == [k \in K |-> f[k]]

\* JSON objects a caller may post: any subset of the keys, each with a value
DictBodies ==
    { [type |-> "dict", val |-> Restrict(full, K)] :
        full \in [ model : {DefaultModel, "other/model"},
                   messages : {<<>>, <<"m1">>, <<"m1", "m2">>, <<"m2", "m1">>},
                   max_tokens : {0, DefaultMaxTokens, 16000},
                   temperature : {"0", DefaultTemperature, "1.5"},
                   stream : {"true"} ],
        K \in SUBSET BodyKeys }

\* bodies that are not JSON objects
OtherBodies ==
    { [type |-> "nobody"],
      [type |-> "NoneType"],
      [type |-> "bool", b |-> FALSE],
      [type |-> "bool", b |-> TRUE],
      [type |-> "int", n |-> 0],
      [type |-> "int", n |-> 5],
      [type |-> "str", chars |-> <<>>],
      [type |-> "str", chars |-> <<"h", "i">>],
      [type |-> "str", chars |-> <<"a">> \o MessagesKey],
      [type |-> "list", items |-> <<>>],
      [type |-> "list", items |-> <<"model">>],
      [type |-> "list", items |-> <<"model", "messages">>] }

\* bool(data)
PyTruthy(data) ==
    CASE data.type = "dict" -> DOMAIN data.val # {}
      [] data.type = "list" -> Len(data.items) > 0
      [] data.type = "str" -> Len(data.chars) > 0
      [] data.type = "int" -> data.n # 0
      [] data.type = "bool" -> data.b
      [] OTHER -> FALSE

\* does `"messages" in data` raise TypeError
InRaises(data) == data.type \in {"int", "bool", "NoneType"}

\* "messages" in data
HasMessages(data) ==
    CASE data.type = "dict" -> "messages" \in DOMAIN data.val
      [] data.type = "list" ->
            \E i \in 1..Len(data.items) : data.items[i] = "messages"
      [] data.type = "str" -> Contains(data.chars, MessagesKey)
      [] OTHER -> FALSE

\* mutant: the caller's value is ignored
DictGet_DefaultOnly(data, key, default) == default

\* data.get(key, default) on a dict
DictGet(data, key, default) ==
    IF key \in DOMAIN data.val THEN data.val[key] ELSE default

\* `not api_key`: unset (None) or empty
KeyMissing(apiKey) == apiKey \in {"None", ""}

NoOutcome == [kind |-> "none", status |-> 0, body |-> <<>>, exc |-> "none"]

\* jsonify(value), status  /  JSONResponse(value, status_code=status)
JsonReply(value, status) ==
    [kind |-> "response", status |-> status, body |-> JsonDumps(value),
     exc |-> "none"]

\* mutant: every error payload goes out with status 500
ErrorReply_Always500(msg, status) ==
    JsonReply(PyDict(<<<<"\"error\"", msg>>>>), 500)

ErrorReply(msg, status) == JsonReply(PyDict(<<<<"\"error\"", msg>>>>), status)

\* an exception the handler does not catch; the framework answers with
\* `status` and a page that is not the handler's JSON
Escapes(exc, status) ==
    [kind |-> "exception", status |-> status, body |-> <<"<html>">>,
     exc |-> exc]

\* one outbound POST
Call(to, payload) == [to |-> to, payload |-> payload]

(***************************************************************************)
(* The remote service's answer to an outbound POST (httpx).                *)
(***************************************************************************)
\* client.post raised a transport error or a timeout (httpx.HTTPError)
UpstreamError(exc, msg) ==
    [kind |-> "error", status |-> 0, text |-> <<>>, exc |-> exc, msg |-> msg,
     content |-> <<>>, isList |-> FALSE, rows |-> <<>>]

\* client.post returned a response with this status and body text
UpstreamResponse(status, text) ==
    [kind |-> "response", status |-> status, text |-> text, exc |-> "none",
     msg |-> "", content |-> <<>>, isList |-> FALSE, rows |-> <<>>]

\* a chat completion whose choices[0].message.content is `content`
Completion(content) ==
    [kind |-> "response", status |-> 200,
     text |-> <<"{", "\"choices\"", ":", "[choices]", "}">>, exc |-> "none",
     msg |-> "", content |-> content, isList |-> FALSE, rows |-> <<>>]

\* a match_documents response: its status, whether its body is a JSON list,
\* and the list's rows
RowsResponse(status, isList, rows) ==
    [kind |-> "response", status |-> status, text |-> <<>>, exc |-> "none",
     msg |-> "", content |-> <<>>, isList |-> isList, rows |-> rows]

\* mutant: only 200 counts as success
IsSuccess_Only200(status) == status = 200

\* mutant: redirects count as success
IsSuccess_Below400(status) == status \in 200..399

\* Response.is_success
IsSuccess(status) == status \in 200..299

\* str(HTTPStatusError) raised by Response.raise_for_status()
StatusMessage(status) ==
    CASE status \in 300..399 -> "\"Redirect response 302\""
      [] status \in 400..499 -> "\"Client error 404\""
      [] OTHER -> "\"Server error 500\""

Step(p, o, calls) == [pc |-> p, out |-> o, sent |-> calls]

(***************************************************************************)
(* Flask handler chat() of proxy_api.py.                                   *)
(***************************************************************************)
\* from entry up to the blocking client.post
ChatBegin(apiKey, data) ==
    IF KeyMissing(apiKey)
    THEN Step("done", ErrorReply("\"Server configuration error\"", 500), <<>>)
    ELSE IF data.type = "nobody"
    THEN Step("done", Escapes("BadRequest", 400), <<>>)
    ELSE IF ~PyTruthy(data)
    THEN Step("done",
              ErrorReply("\"Invalid request - messages required\"", 400), <<>>)
    ELSE IF InRaises(data)
    THEN Step("done", Escapes("TypeError", 500), <<>>)
    ELSE IF ~HasMessages(data)
    THEN Step("done",
              ErrorReply("\"Invalid request - messages required\"", 400), <<>>)
    ELSE IF data.type # "dict"
    THEN Step("done", Escapes("AttributeError", 500), <<>>)
    ELSE Step("awaiting", NoOutcome,
              << Call("openrouter",
                      [ model |-> DictGet(data, "model", DefaultModel),
                        messages |-> data.val["messages"],
                        max_tokens |->
                            DictGet(data, "max_tokens", DefaultMaxTokens),
                        temperature |->
                            DictGet(data, "temperature", DefaultTemperature) ])
              >>)

\* from the return of client.post to the response
ChatEnd(reply) ==
    IF reply.kind = "error"
    THEN ErrorReply(reply.msg, 500)
    ELSE IF ~IsSuccess(reply.status)
    THEN ErrorReply(StatusMessage(reply.status), 500)
    ELSE LET value == JsonLoads(reply.text) IN
         IF value = JSONDecodeError
         THEN Escapes("JSONDecodeError", 500)
         ELSE JsonReply(value, 200)

(***************************************************************************)
(* FastAPI handler proxy_chat(request: dict) of server.py.                 *)
(***************************************************************************)
\* the declared body parameter `request: dict`: FastAPI answers 422 itself
\* when the body is missing or is not a JSON object
BodyIsDict(data) == data.type = "dict"

ValidationReply ==
    JsonReply(PyDict(<< <<"\"detail\"",
                          "\"Input should be a valid dictionary\"">> >>), 422)

ProxyChatBegin(apiKey, request) ==
    IF ~BodyIsDict(request)
    THEN Step("done", ValidationReply, <<>>)
    ELSE IF KeyMissing(apiKey)
    THEN Step("done", ErrorReply("\"Server configuration error\"", 500), <<>>)
    ELSE IF ~PyTruthy(request) \/ ~HasMessages(request)
    THEN Step("done",
              ErrorReply("\"Invalid request - messages required\"", 400), <<>>)
    ELSE Step("awaiting", NoOutcome,
              << Call("openrouter",
                      [ model |-> DictGet(request, "model", DefaultModel),
                        messages |-> request.val["messages"],
                        max_tokens |->
                            DictGet(request, "max_tokens", DefaultMaxTokens),
                        temperature |->
                            DictGet(request, "temperature", DefaultTemperature) ])
              >>)

ProxyChatEnd(reply) ==
    IF reply.kind = "error"
    THEN ErrorReply(reply.msg, 500)
    ELSE IF ~IsSuccess(reply.status)
    THEN ErrorReply(StatusMessage(reply.status), 500)
    ELSE LET value == JsonLoads(reply.text) IN
         IF value = JSONDecodeError
         THEN Escapes("JSONDecodeError", 500)
         ELSE JsonReply(value, 200)

(***************************************************************************)
(* search_symbols_docs: the local keyword lookup.                          *)
(***************************************************************************)
MinWordLen == 2       \* a word is a keyword when len(w) > 2
LinesBefore == 2      \* start = max(0, i - 2)
LinesAfter == 20      \* end = min(len(lines), i + 20)
ContentPrefix == 1000 \* doc.get("content", "")[:1000]

\* re.split(r"\s+", s): left-to-right scan; `cur` is the piece being read,
\* `inGap` tells that the previous character belonged to a separator
RECURSIVE ReSplitFrom(_, _, _, _, _)
ReSplitFrom(s, i, cur, inGap, acc) ==
    IF i > Len(s) THEN Append(acc, cur)
    ELSE IF IsSpace(s[i])
    THEN (IF inGap
          THEN ReSplitFrom(s, i + 1, cur, TRUE, acc)
          ELSE ReSplitFrom(s, i + 1, <<>>, TRUE, Append(acc, cur)))
    ELSE ReSplitFrom(s, i + 1, Append(cur, s[i]), FALSE, acc)

ReSplit(s) == ReSplitFrom(s, 1, <<>>, FALSE, <<>>)

\* mutant: words of two characters are kept too
Keywords_InclusiveLen(query) ==
    LET words == SelectSeq(ReSplit(Lower(query)),
                           LAMBDA w : Len(w) >= MinWordLen) IN
    IF words = <<>> THEN <<Lower(query)>> ELSE words

\* keywords = [w for w in re.split(r"\s+", query.lower()) if len(w) > 2]
\* if not keywords: keywords = [query.lower()]
Keywords(query) ==
    LET words == SelectSeq(ReSplit(Lower(query)),
                           LAMBDA w : Len(w) > MinWordLen) IN
    IF words = <<>> THEN <<Lower(query)>> ELSE words

\* content.split("\n")
RECURSIVE SplitLinesFrom(_, _, _, _)
SplitLinesFrom(s, i, cur, acc) ==
    IF i > Len(s) THEN Append(acc, cur)
    ELSE IF s[i] = "\n"
    THEN SplitLinesFrom(s, i + 1, <<>>, Append(acc, cur))
    ELSE SplitLinesFrom(s, i + 1, Append(cur, s[i]), acc)

SplitLines(s) == SplitLinesFrom(s, 1, <<>>, <<>>)

\* "\n".join(lines)
RECURSIVE JoinLines(_)
JoinLines(lines) ==
    IF Len(lines) = 0 THEN <<>>
    ELSE IF Len(lines) = 1 THEN lines[1]
    ELSE lines[1] \o <<"\n">> \o JoinLines(Tail(lines))

\* any(kw in text for kw in keywords)
AnyKeywordIn(keywords, text) ==
    \E k \in 1..Len(keywords) : Contains(text, keywords[k])

\* for i, line in enumerate(lines): the 0-based index at which the loop
\* breaks, or -1 when it runs to the end
RECURSIVE FirstHitFrom(_, _, _)
FirstHitFrom(lines, keywords, i) ==
    IF i >= Len(lines) THEN -1
    ELSE IF AnyKeywordIn(keywords, Lower(lines[i + 1])) THEN i
    ELSE FirstHitFrom(lines, keywords, i + 1)

\* mutant: the window takes the line at i + 20 as well
Snippet_Inclusive(lines, i) ==
    LET start == Max(0, i - LinesBefore)
        end == Min(Len(lines), i + LinesAfter + 1) IN
    JoinLines(Slice(lines, start, end))

\* lines[start:end] joined, around the hit at index i
Snippet(lines, i) ==
    LET start == Max(0, i - LinesBefore)
        end == Min(Len(lines), i + LinesAfter) IN
    JoinLines(Slice(lines, start, end))

\* the body of the loop for one file that passed the content test: the
\* results it appends (none or one)
FileResults(file, keywords) ==
    LET lines == SplitLines(file.content)
        i == FirstHitFrom(lines, keywords, 0) IN
    IF i < 0 THEN <<>>
    ELSE << [file |-> file.name, snippet |-> Snippet(lines, i)] >>

\* the loop over SKILLS_PATH.glob("*.md"), from the k-th file on; `read`
\* counts the files whose text has been read
RECURSIVE ScanFrom(_, _, _, _, _)
ScanFrom(dir, keywords, max_results, k, results) ==
    IF k > Len(dir) THEN [results |-> results, read |-> Len(dir)]
    ELSE IF ~AnyKeywordIn(keywords, Lower(dir[k].content))
    THEN ScanFrom(dir, keywords, max_results, k + 1, results)
    ELSE LET results2 == results \o FileResults(dir[k], keywords) IN
         IF Len(results2) >= max_results
         THEN [results |-> results2, read |-> k]
         ELSE ScanFrom(dir, keywords, max_results, k + 1, results2)

LocalScan(dir, keywords, max_results) ==
    ScanFrom(dir, keywords, max_results, 1, <<>>)

\* `not SUPABASE_URL or not SUPABASE_KEY`
RemoteSearchOff(e) == e.supabaseUrl = "" \/ e.supabaseKey = ""

\* json.dumps(results, indent=2) if results, else the "No results" message
SearchReturn(results, query) ==
    IF Len(results) > 0
    THEN [kind |-> "results", results |-> results, query |-> query]
    ELSE [kind |-> "no_results", results |-> <<>>, query |-> query]

\* results[:n] for any integer n (a negative n counts from the end)
Prefix(seq, n) ==
    IF n >= 0 THEN Slice(seq, 0, Min(n, Len(seq)))
    ELSE Slice(seq, 0, Max(0, Len(seq) + n))

\* a row of the match_documents reply as the tool reports it
RemoteResult(doc) ==
    [ title |-> IF "title" \in DOMAIN doc THEN doc.title ELSE "Untitled",
      content |-> IF "content" \in DOMAIN doc
                  THEN Prefix(doc.content, ContentPrefix) ELSE <<>>,
      similarity |-> IF "similarity" \in DOMAIN doc
                     THEN doc.similarity ELSE "0" ]

\* for doc in resp.json()[:max_results]: supabase_results.append({...});
\* a row that is not an object raises, and the rows before it stay appended
RECURSIVE CollectRows(_, _, _)
CollectRows(rows, i, acc) ==
    IF i > Len(rows) THEN acc
    ELSE IF rows[i].type # "dict" THEN acc
    ELSE CollectRows(rows, i + 1, Append(acc, RemoteResult(rows[i].val)))

\* the try block around the vector search: the results it leaves
SupabaseResults(reply, max_results) ==
    IF reply.kind = "response" /\ reply.status = 200 /\ reply.isList
    THEN CollectRows(Prefix(reply.rows, max_results), 1, <<>>)
    ELSE <<>>

(***************************************************************************)
(* The generation tools: _call_openrouter and the post-processing.         *)
(***************************************************************************)
\* the backquote character, which a TLA+ string cannot hold
Backquote == "BACKQUOTE"

Fence == <<Backquote, Backquote, Backquote>>

FencePrefixes ==
    << Fence \o <<"j", "a", "v", "a", "s", "c", "r", "i", "p", "t">>,
       Fence \o <<"j", "s">>,
       Fence \o <<"j", "s", "o", "n">>,
       Fence >>

\* str.strip()
RECURSIVE LStrip(_)
LStrip(s) == IF Len(s) > 0 /\ IsSpace(s[1]) THEN LStrip(Tail(s)) ELSE s

RECURSIVE RStrip(_)
RStrip(s) ==
    IF Len(s) > 0 /\ IsSpace(s[Len(s)])
    THEN RStrip(SubSeq(s, 1, Len(s) - 1)) ELSE s

Strip(s) == RStrip(LStrip(s))

\* s.endswith(p)
EndsWith(s, p) ==
    Len(p) <= Len(s) /\ SubSeq(s, Len(s) - Len(p) + 1, Len(s)) = p

\* the for loop over the prefixes: the first one that matches is cut
RECURSIVE CutPrefixFrom(_, _)
CutPrefixFrom(cleaned, k) ==
    IF k > Len(FencePrefixes) THEN cleaned
    ELSE IF StartsWith(cleaned, FencePrefixes[k])
    THEN Slice(cleaned, Len(FencePrefixes[k]), Len(cleaned))
    ELSE CutPrefixFrom(cleaned, k + 1)

\* _clean_code_response(text)
CleanCodeResponse(text) ==
    LET cleaned1 == CutPrefixFrom(Strip(text), 1)
        cleaned2 == IF EndsWith(cleaned1, Fence)
                    THEN Slice(cleaned1, 0, Len(cleaned1) - 3)
                    ELSE cleaned1 IN
    Strip(cleaned2)

RECURSIVE DumpMembersIndent(_, _)
DumpMembersIndent(pairs, i) ==
    IF i > Len(pairs) THEN <<>>
    ELSE (IF i > 1 THEN <<",">> ELSE <<>>)
         \o <<"\n", " ", " ", pairs[i][1], ":", " ", pairs[i][2]>>
         \o DumpMembersIndent(pairs, i + 1)

\* json.dumps(value, indent=2)
JsonDumpsIndent(value) ==
    IF value.type = "scalar" THEN <<value.v>>
    ELSE IF Len(value.members) = 0 THEN <<"{", "}">>
    ELSE <<"{">> \o DumpMembersIndent(value.members, 1) \o <<"\n", "}">>

\* mutant: the text itself is serialized instead of the parsed value
\* (json.dumps(cleaned)), which gives one string literal
PrettyJsonOrRaw_DumpsText(cleaned) ==
    IF JsonLoads(cleaned) = JSONDecodeError THEN cleaned ELSE <<"\"ok\"">>

\* mutant: a parse failure yields the serialization of None
PrettyJsonOrRaw_NullOnFailure(cleaned) ==
    LET parsed == JsonLoads(cleaned) IN
    IF parsed = JSONDecodeError THEN <<"null">> ELSE JsonDumpsIndent(parsed)

\* try: json.dumps(json.loads(cleaned), indent=2) except JSONDecodeError: cleaned
PrettyJsonOrRaw(cleaned) ==
    LET parsed == JsonLoads(cleaned) IN
    IF parsed = JSONDecodeError THEN cleaned ELSE JsonDumpsIndent(parsed)

Tools ==
    { "generate_component", "generate_page", "generate_project",
      "convert_to_symbols", "explain_symbols_concept", "review_symbols_code",
      "create_design_system" }

\* the max_tokens each tool passes to _call_openrouter
ToolMaxTokens(tool) ==
    CASE tool = "generate_project" -> 16000
      [] tool = "convert_to_symbols" -> 12000
      [] tool = "review_symbols_code" -> 6000
      [] tool = "create_design_system" -> 10000
      [] OTHER -> DefaultMaxTokens

\* mutant: the tools that return code hand the response back as it came
ToolReturn_CleanSkipped(tool, response) ==
    CASE tool \in {"generate_project", "create_design_system"} ->
            PrettyJsonOrRaw(CleanCodeResponse(response))
      [] OTHER -> response

\* what the tool does with the string _call_openrouter returned
ToolReturn(tool, response) ==
    CASE tool \in {"explain_symbols_concept", "review_symbols_code"} ->
            response
      [] tool \in {"generate_project", "create_design_system"} ->
            PrettyJsonOrRaw(CleanCodeResponse(response))
      [] OTHER -> CleanCodeResponse(response)

Returned(text) ==
    [kind |-> "returned", status |-> 0, body |-> text, exc |-> "none"]

NoCredentialMessage ==
    <<"Error: Either SYMBOLS_MCP_URL or OPENROUTER_API_KEY must be set">>

\* the user message _call_openrouter builds from the prompt
PromptPayload(e, prompt, max_tokens) ==
    [ model |-> e.llmModel,
      messages |-> <<prompt>>,
      max_tokens |-> max_tokens,
      temperature |-> DefaultTemperature ]

\* _call_openrouter up to its await: through the proxy, directly, or not at all
CallOpenRouterBegin(e, tool, prompt) ==
    IF e.proxyUrl # ""
    THEN Step("awaiting", NoOutcome,
              << Call("proxy", PromptPayload(e, prompt, ToolMaxTokens(tool))) >>)
    ELSE IF ~KeyMissing(e.apiKey)
    THEN Step("awaiting", NoOutcome,
              << Call("openrouter",
                      PromptPayload(e, prompt, ToolMaxTokens(tool))) >>)
    ELSE Step("done", Returned(ToolReturn(tool, NoCredentialMessage)), <<>>)

\* _call_openrouter after its await, and the rest of the tool
CallOpenRouterEnd(tool, reply) ==
    IF reply.kind = "error"
    THEN Escapes(reply.exc, 0)
    ELSE IF ~IsSuccess(reply.status)
    THEN Escapes("HTTPStatusError", 0)
    ELSE LET result == JsonLoads(reply.text) IN
         IF result = JSONDecodeError THEN Escapes("JSONDecodeError", 0)
         ELSE IF result.type # "dict" THEN Escapes("TypeError", 0)
         ELSE IF ~\E i \in 1..Len(result.members) :
                    /\ result.members[i][1] = "\"choices\""
                    /\ result.members[i][2] = "[choices]"
         THEN Escapes("KeyError", 0)
         ELSE Returned(ToolReturn(tool, reply.content))

(***************************************************************************)
(* The memoized documentation context.                                     *)
(***************************************************************************)
ContextFiles == <<"CLAUDE.md", "SYMBOLS_LOCAL_INSTRUCTIONS.md", "DESIGN_DIRECTION.md">>

SkillFilePrefix == <<"S", "k", "i", "l", "l", " ", "f", "i", "l", "e">>

ContextSeparator == <<"\n", "\n", "-", "-", "-", "\n", "\n">>

\* _read_skill(filename): the file's text, or the "Skill file ... not found"
\* message when the directory has no such file
ReadSkill(dir, filename) ==
    IF \E k \in 1..Len(dir) : dir[k].name = filename
    THEN dir[CHOOSE k \in 1..Len(dir) : dir[k].name = filename].content
    ELSE SkillFilePrefix \o <<" ", "n", "o", "t", " ", "f", "o", "u", "n", "d">>

RECURSIVE JoinParts(_)
JoinParts(parts) ==
    IF Len(parts) = 0 THEN <<>>
    ELSE IF Len(parts) = 1 THEN parts[1]
    ELSE parts[1] \o ContextSeparator \o JoinParts(Tail(parts))

\* _build_symbols_system_context()
BuildSymbolsSystemContext(dir) ==
    LET contents == [k \in 1..Len(ContextFiles) |-> ReadSkill(dir, ContextFiles[k])]
        parts == SelectSeq(contents, LAMBDA c : ~StartsWith(c, SkillFilePrefix)) IN
    JoinParts(parts)

ContextNone == [isNone |-> TRUE, value |-> <<>>]

\* mutant: the test is on truthiness (`if not _SYMBOLS_CONTEXT`), so an
\* empty context counts as not built
ContextIsNone_Falsy(cache) == cache.isNone \/ cache.value = <<>>

\* `_SYMBOLS_CONTEXT is None`: the call will run the build
ContextIsNone(cache) == cache.isNone

\* _get_symbols_context(): the cache after the call
GetSymbolsContext(cache, dir) ==
    IF ContextIsNone(cache)
    THEN [isNone |-> FALSE, value |-> BuildSymbolsSystemContext(dir)]
    ELSE cache

(***************************************************************************)
(* Actions.                                                                *)
(***************************************************************************)
NoLocals == [keywords |-> <<>>, results |-> <<>>, read |-> 0]

\* Flask: chat() runs up to its outbound call
chat ==
    /\ pc = "ready" /\ req.op = "chat"
    /\ LET r == ChatBegin(env.apiKey, req.body) IN
          /\ pc' = r.pc
          /\ out' = r.out
          /\ sent' = sent \o r.sent
    /\ UNCHANGED <<env, files, upstream, req, SYMBOLS_CONTEXT, locals>>

\* mutant: a failed call is sent again (up to three attempts)
chat_reply_retry ==
    /\ pc = "awaiting" /\ req.op = "chat"
    /\ IF (upstream.kind = "error" \/ ~IsSuccess(upstream.status))
          /\ Len(sent) < 3
       THEN /\ sent' = Append(sent, sent[1])
            /\ UNCHANGED <<pc, out>>
       ELSE /\ pc' = "done"
            /\ out' = ChatEnd(upstream)
            /\ UNCHANGED sent
    /\ UNCHANGED <<env, files, upstream, req, SYMBOLS_CONTEXT, locals>>

\* Flask: the outbound call returns or raises, chat() answers
chat_reply ==
    /\ pc = "awaiting" /\ req.op = "chat"
    /\ pc' = "done"
    /\ out' = ChatEnd(upstream)
    /\ UNCHANGED <<env, files, upstream, req, sent, SYMBOLS_CONTEXT, locals>>

\* FastAPI: proxy_chat() runs up to its outbound call
proxy_chat ==
    /\ pc = "ready" /\ req.op = "proxy_chat"
    /\ LET r == ProxyChatBegin(env.apiKey, req.body) IN
          /\ pc' = r.pc
          /\ out' = r.out
          /\ sent' = sent \o r.sent
    /\ UNCHANGED <<env, files, upstream, req, SYMBOLS_CONTEXT, locals>>

\* FastAPI: the awaited call completes, proxy_chat() answers
proxy_chat_reply ==
    /\ pc = "awaiting" /\ req.op = "proxy_chat"
    /\ pc' = "done"
    /\ out' = ProxyChatEnd(upstream)
    /\ UNCHANGED <<env, files, upstream, req, sent, SYMBOLS_CONTEXT, locals>>

\* a generation tool runs up to the await inside _call_openrouter
tool_call ==
    /\ pc = "ready" /\ req.op = "tool"
    /\ SYMBOLS_CONTEXT' = GetSymbolsContext(SYMBOLS_CONTEXT, files)
    /\ LET r == CallOpenRouterBegin(env, req.tool, req.prompt) IN
          /\ pc' = r.pc
          /\ out' = r.out
          /\ sent' = sent \o r.sent
    /\ UNCHANGED <<env, files, upstream, req, locals>>

\* the awaited completion arrives, the tool post-processes and returns
tool_reply ==
    /\ pc = "awaiting" /\ req.op = "tool"
    /\ pc' = "done"
    /\ out' = CallOpenRouterEnd(req.tool, upstream)
    /\ UNCHANGED <<env, files, upstream, req, sent, SYMBOLS_CONTEXT, locals>>

\* search_symbols_docs without remote search: lines 500-526
search_local ==
    /\ pc = "ready" /\ req.op = "search"
    /\ RemoteSearchOff(env)
    /\ LET keywords == Keywords(req.query)
           scan == LocalScan(files, keywords, req.max_results) IN
          /\ locals' = [keywords |-> keywords, results |-> scan.results,
                        read |-> scan.read]
          /\ out' = SearchReturn(scan.results, req.query)
    /\ pc' = "done"
    /\ UNCHANGED <<env, files, upstream, req, sent, SYMBOLS_CONTEXT>>

\* search_symbols_docs with remote search: the local scan, then the await
\* of the vector search (lines 528-562)
search_remote ==
    /\ pc = "ready" /\ req.op = "search"
    /\ ~RemoteSearchOff(env)
    /\ LET keywords == Keywords(req.query)
           scan == LocalScan(files, keywords, req.max_results) IN
          locals' = [keywords |-> keywords, results |-> scan.results,
                     read |-> scan.read]
    /\ sent' = Append(sent, Call("supabase",
                                 [query_text |-> req.query,
                                  match_count |-> req.max_results]))
    /\ pc' = "awaiting"
    /\ UNCHANGED <<env, files, upstream, req, SYMBOLS_CONTEXT, out>>

\* the vector search returns or raises; merge and return (lines 563-578)
search_reply ==
    /\ pc = "awaiting" /\ req.op = "search"
    /\ LET results == SupabaseResults(upstream, req.max_results)
                          \o locals.results IN
          out' = IF Len(results) > 0
                 THEN [kind |-> "results",
                       results |-> Prefix(results, req.max_results),
                       query |-> req.query]
                 ELSE SearchReturn(<<>>, req.query)
    /\ pc' = "done"
    /\ UNCHANGED <<env, files, upstream, req, sent, SYMBOLS_CONTEXT, locals>>

\* _clean_code_response applied to a text
clean_code_response ==
    /\ pc = "ready" /\ req.op = "clean"
    /\ out' = Returned(CleanCodeResponse(req.text))
    /\ pc' = "done"
    /\ UNCHANGED <<env, files, upstream, req, sent, SYMBOLS_CONTEXT, locals>>

(***************************************************************************)
(* Inputs: configurations, requests, directories and remote answers.       *)
(***************************************************************************)
Env(apiKey, proxyUrl, supabaseUrl, supabaseKey) ==
    [apiKey |-> apiKey, proxyUrl |-> proxyUrl, supabaseUrl |-> supabaseUrl,
     supabaseKey |-> supabaseKey, llmModel |-> DefaultModel]

ApiKeys == {"None", "", "sk-key"}
ProxyUrls == {"", "https://proxy"}

\* all sequences over S of length at most n
SeqsUpTo(S, n) == UNION { [1..k -> S] : k \in 0..n }

File(name, content) == [name |-> name, content |-> content]

\* the k-th file name of an enumerated directory
FileNames ==
    <<"CLAUDE.md", "QUICKSTART.md", "DESIGN_DIRECTION.md", "MIGRATE_TO_SYMBOLS.md",
      "SYMBOLS_LOCAL_INSTRUCTIONS.md", "AGENT_INSTRUCTIONS.md",
      "DOMQL_v2-v3_MIGRATION.md">>

\* the directory holding the given contents, in this order
DirOf(contents) == [k \in 1..Len(contents) |-> File(FileNames[k], contents[k])]

RoutingDoc ==
    <<"#", " ", "R", "o", "u", "t", "i", "n", "g", "\n",
      "\n",
      "u", "s", "e", " ", "r", "o", "u", "t", "i", "n", "g">>

SampleDir == DirOf(<< RoutingDoc, <<"a", "b", "c", "\n", "x">> >>)

RoutingQuery ==
    <<"r", "o", "u", "t", "i", "n", "g", " ", "g", "u", "i", "d", "e">>

\* upstream bodies written out by hand
PickedTexts ==
    { <<"{", "\"id\"", ":", "1", ",", "\"ok\"", ":", "2", "}">>,
      <<"{", "\"id\"", ":", "1", ",", "\"id\"", ":", "2", "}">>,
      <<"{", " ", "\"ok\"", ":", " ", "null", ",", "\n", "\"id\"", ":", "2",
        "}">>,
      <<"{", "\"choices\"", ":", "[choices]", "}">>,
      <<"\"ok\"">>,
      <<"<html>">>,
      <<>> }

JsonAlphabet == {"{", "}", "\"id\"", ":", "1", " "}

TransportErrors ==
    { UpstreamError("ConnectError", "\"ConnectError\""),
      UpstreamError("ReadTimeout", "\"ReadTimeout\"") }

\* a few answers, for the requests enumerated widely
NarrowReplies ==
    { UpstreamResponse(200, <<"{", "\"id\"", ":", "1", "}">>),
      UpstreamResponse(404, <<"{", "\"error\"", ":", "\"ok\"", "}">>),
      UpstreamError("ConnectError", "\"ConnectError\"") }

\* every answer of the model, for a few requests
WideReplies ==
    TransportErrors
    \cup { UpstreamResponse(st, t) :
             st \in {200, 201, 302, 404, 500}, t \in PickedTexts }
    \cup { UpstreamResponse(200, t) : t \in SeqsUpTo(JsonAlphabet, MaxJsonLen) }

ProbeBodies ==
    { [type |-> "dict", val |-> [messages |-> <<"m1", "m2">>]],
      [type |-> "dict",
       val |-> [messages |-> <<"m1">>, model |-> "other/model",
                max_tokens |-> 0, temperature |-> "0", stream |-> "true"]] }

\* model answers to a generation prompt
ToolContents ==
    { <<"x">>,
      <<" ", "x", "\n">>,
      Fence \o <<"j", "a", "v", "a", "s", "c", "r", "i", "p", "t", "\n", "x",
                 "\n">> \o Fence,
      Fence \o <<"j", "s", "o", "n", "\n", "{", "\"id\"", ":", "1", "}", "\n">>
            \o Fence,
      Fence \o <<"\n", "x", "\n">> \o Fence,
      <<" ", "\n">> \o Fence \o <<"j", "s", "\n", "x", " ", "y", "\n">> \o Fence
                   \o <<"\n">>,
      <<"{", "\"id\"", ":", "1", ",", "\"ok\"", ":", "2", "}">>,
      <<"{", "\"id\"", ":", "1", ",", "\"id\"", ":", "2", "}">>,
      Fence \o <<"\n", "{", "\"ok\"", ":", "null", ",", " ", "\"id\"", ":",
                 "1", "}", "\n">> \o Fence,
      <<"null">>,
      <<"{", "}">>,
      <<"{", "\"id\"", ":">> }

ToolReplies ==
    TransportErrors
    \cup { Completion(c) : c \in ToolContents }
    \cup { UpstreamResponse(500, <<"{", "\"error\"", ":", "\"ok\"", "}">>),
           UpstreamResponse(200, <<"<html>">>),
           UpstreamResponse(200, <<"\"ok\"">>),
           UpstreamResponse(200, <<"{", "\"id\"", ":", "1", "}">>) }

\* rows of a match_documents reply
FullRow ==
    [type |-> "dict",
     val |-> [title |-> "T1", content |-> <<"x", "y">>, similarity |-> "0.9"]]

BareRow == [type |-> "dict", val |-> [content |-> <<"z">>]]

BadRow == [type |-> "str", val |-> <<>>]

RowLists ==
    { <<>>, <<FullRow>>, <<FullRow, BareRow>>, <<BareRow, BadRow, FullRow>>,
      <<FullRow, BareRow, FullRow, BareRow>> }

SupabaseReplies ==
    { UpstreamError("ConnectError", "\"ConnectError\""),
      RowsResponse(500, FALSE, <<>>),
      RowsResponse(200, FALSE, <<>>) }
    \cup { RowsResponse(200, TRUE, rows) : rows \in RowLists }

MaxResultsValues == {-1, 0, 1, 2, 3, 6}

\* characters of the queries enumerated exhaustively
QueryChars == {"a", "B", " ", "\n"}

\* queries written out by hand
PickedQueries ==
    { <<"a", "b", "c">>,
      <<"A", "B", "C", " ", "z", "z", "z">>,
      <<"a", "\n", "b">>,
      <<"b">>,
      <<>>,
      <<"z", "z", "z", "z">>,
      RoutingQuery }

\* the directory the exhaustively enumerated queries run against
QueryDir ==
    DirOf(<< <<"a", "B", "\n", "b", " ", "a">>,
             <<"b", "b", "b", "\n", "\n", "a", "a", "b">>,
             <<"a", " ", "b">> >>)

\* lines of the short documents enumerated exhaustively
LineValues ==
    { <<>>, <<"a", "b", "c">>, <<"x", "A", "B", "C">>, <<"a">>, <<"b">> }

ShortDocs ==
    { JoinLines(lines) : lines \in SeqsUpTo(LineValues, MaxLines) \ {<<>>} }

\* n filler lines
Filler(n) == [k \in 1..n |-> IF k % 2 = 1 THEN <<"x">> ELSE <<>>]

\* long documents: a hit line after 0..3 lines and before 17..22 lines
LongDocs ==
    { JoinLines(Filler(before) \o << <<"a", "b", "c">> >> \o Filler(after)) :
        before \in 0..3, after \in 17..22 }

\* contents of the documents of the enumerated directories
DirContents ==
    { <<"x", "\n", "a", "b", "c", "\n", "x">>,
      <<"x", "\n", "x">>,
      <<"a", "\n", "b">>,
      <<"A", "B", "C">> }

InitCommon ==
    /\ pc = "ready"
    /\ sent = <<>>
    /\ SYMBOLS_CONTEXT = ContextNone
    /\ locals = NoLocals
    /\ out = NoOutcome

\* gateway requests: every body, a few upstream answers
InitGatewayBodies ==
    /\ env \in { Env(k, "", "", "") : k \in ApiKeys }
    /\ files = SampleDir
    /\ req \in [op : {"chat", "proxy_chat"}, body : DictBodies \cup OtherBodies]
    /\ upstream \in NarrowReplies

\* gateway requests: a few accepted bodies, every upstream answer
InitGatewayReplies ==
    /\ env = Env("sk-key", "", "", "")
    /\ files = SampleDir
    /\ req \in [op : {"chat", "proxy_chat"}, body : ProbeBodies]
    /\ upstream \in WideReplies

InitTools ==
    /\ env \in { Env(k, p, "", "") : k \in ApiKeys, p \in ProxyUrls }
    /\ files \in { SampleDir, <<>> }
    /\ req \in [op : {"tool"}, tool : Tools, prompt : {"prompt"}]
    /\ upstream \in ToolReplies

\* the tools that return JSON, on every short answer of the model
InitJsonTools ==
    /\ env = Env("sk-key", "", "", "")
    /\ files = SampleDir
    /\ req \in [op : {"tool"},
                tool : {"generate_project", "create_design_system"},
                prompt : {"prompt"}]
    /\ upstream \in { Completion(c) : c \in SeqsUpTo(JsonAlphabet, MaxJsonLen) }

SupabaseEnvs ==
    { Env("sk-key", "", u, k) : u \in {"", "https://sb"}, k \in {"", "sb-key"} }

InitSearchSample ==
    /\ env \in SupabaseEnvs
    /\ files = SampleDir
    /\ req \in [op : {"search"}, query : {RoutingQuery, <<"a", "b", "c">>},
                max_results : {1, 3}]
    /\ upstream \in SupabaseReplies

Init ==
    /\ InitCommon
    /\ \/ InitGatewayBodies
       \/ InitGatewayReplies
       \/ InitTools
       \/ InitJsonTools
       \/ InitSearchSample

Next ==
    \/ chat
    \/ chat_reply
    \/ proxy_chat
    \/ proxy_chat_reply
    \/ tool_call
    \/ tool_reply
    \/ search_local
    \/ search_remote
    \/ search_reply

Spec == Init /\ [][Next]_vars

(***************************************************************************)
(* The lookup on widely enumerated queries and directories.                *)
(***************************************************************************)
\* every short query against one directory
InitSearchQueries ==
    /\ env \in { Env("sk-key", "", "", ""), Env("sk-key", "", "https://sb", "sb-key") }
    /\ files = QueryDir
    /\ req \in [op : {"search"}, query : SeqsUpTo(QueryChars, MaxQueryLen),
                max_results : {3}]
    /\ upstream = RowsResponse(200, TRUE, <<>>)

\* every short document and the long documents, alone in the directory
InitSearchDocuments ==
    /\ env \in { Env("sk-key", "", "", ""), Env("sk-key", "", "https://sb", "sb-key") }
    /\ files \in { DirOf(<<c>>) : c \in ShortDocs \cup LongDocs \cup {RoutingDoc} }
    /\ req \in [op : {"search"}, query : PickedQueries, max_results : {3}]
    /\ upstream = UpstreamError("ConnectError", "\"ConnectError\"")

\* every directory of up to MaxDocs documents, every max_results
InitSearchDirectories ==
    /\ files \in { DirOf(cs) : cs \in SeqsUpTo(DirContents, MaxDocs) }
    /\ req \in [op : {"search"}, query : PickedQueries,
                max_results : MaxResultsValues]
    /\ \/ /\ env = Env("sk-key", "", "", "")
          /\ upstream = RowsResponse(200, TRUE, <<>>)
       \/ /\ env = Env("sk-key", "", "https://sb", "sb-key")
          /\ upstream \in SupabaseReplies

\* a directory of six documents that all hold the keyword
ManyDocsDir ==
    DirOf(<< <<"a", "b", "c">>, <<"x", "\n", "a", "b", "c">>, <<"A", "B", "C">>,
             <<"a", "b", "c", "\n", "x">>, <<"a", "b", "c", "d">>,
             <<"z", "A", "b", "C">> >>)

\* the six-document directory, max_results around and above five
InitSearchManyDocs ==
    /\ files = ManyDocsDir
    /\ req \in [op : {"search"},
                query : {<<"a", "b", "c">>, <<"A", "B", "C", " ", "z", "z", "z">>},
                max_results : {4, 5, 6, 7}]
    /\ \/ /\ env = Env("sk-key", "", "", "")
          /\ upstream = RowsResponse(200, TRUE, <<>>)
       \/ /\ env = Env("sk-key", "", "https://sb", "sb-key")
          /\ upstream \in SupabaseReplies

SearchInit ==
    /\ InitCommon
    /\ \/ InitSearchQueries
       \/ InitSearchDocuments
       \/ InitSearchDirectories
       \/ InitSearchManyDocs

SearchNext ==
    \/ search_local
    \/ search_remote
    \/ search_reply

SearchSpec == SearchInit /\ [][SearchNext]_vars

(***************************************************************************)
(* _clean_code_response on enumerated texts.                               *)
(***************************************************************************)
MaxTextLen == 3     \* longest text enumerated character by character
MaxBodyLen == 3     \* longest body enumerated between two fences
MaxFenceTextLen == 7    \* longest text enumerated over backquote and "x"

TextChars == {Backquote, "j", "s", "\n", " ", "x"}

BodyChars == {"x", " ", "\n", "o", "n", "{"}

\* the openings of a fenced answer: bare, javascript, js, json
FenceOpenings ==
    { Fence,
      Fence \o <<"j", "a", "v", "a", "s", "c", "r", "i", "p", "t">>,
      Fence \o <<"j", "s">>,
      Fence \o <<"j", "s", "o", "n">> }

\* opening, newline, body, newline, closing fence
FencedTexts ==
    { opening \o <<"\n">> \o body \o <<"\n">> \o Fence :
        opening \in FenceOpenings, body \in SeqsUpTo(BodyChars, MaxBodyLen) }

\* a fenced answer quoted whole inside another pair of fences
DoublyFencedTexts ==
    { Fence \o <<"\n">> \o inner \o <<"\n">> \o Fence : inner \in FencedTexts }

\* every text of backquotes and "x": runs of fence markers of any length
BackquoteTexts == SeqsUpTo({Backquote, "x"}, MaxFenceTextLen)

CleanInit ==
    /\ InitCommon
    /\ env = Env("sk-key", "", "", "")
    /\ files = <<>>
    /\ upstream = Completion(<<>>)
    /\ req \in [op : {"clean"},
                text : FencedTexts \cup DoublyFencedTexts \cup BackquoteTexts
                         \cup SeqsUpTo(TextChars, MaxTextLen)]

CleanNext == clean_code_response

CleanSpec == CleanInit /\ [][CleanNext]_vars

(***************************************************************************)
(* Several operations of one process, interleaved at their awaits.  Here   *)
(* req, upstream, pc, sent, locals and out hold one value per invocation;  *)
(* env, files and SYMBOLS_CONTEXT are the process's.  A handler runs       *)
(* without interruption from its entry to its await and from the           *)
(* completion of the await to its return (one event loop, no threads).     *)
(***************************************************************************)
MaxInvocations == 3     \* invocations in flight in one behaviour

Procs == 1..MaxInvocations

\* the locals of an invocation: those of the lookup, the context a tool got
\* from _get_symbols_context() and whether that call ran the build
ConcNoLocals ==
    [keywords |-> <<>>, results |-> <<>>, read |-> 0, ctx |-> <<>>,
     built |-> FALSE]

Operation(r, reply) == [req |-> r, upstream |-> reply]

\* the operations an invocation may be, each with the answer to its call
ConcOperations ==
    { Operation([op |-> "tool", tool |-> "generate_component", prompt |-> "prompt"],
                Completion(Fence \o <<"\n", "x", "\n">> \o Fence)),
      Operation([op |-> "tool", tool |-> "explain_symbols_concept",
                 prompt |-> "prompt"],
                Completion(<<"x">>)),
      Operation([op |-> "search", query |-> <<"a", "b", "c">>, max_results |-> 1],
                RowsResponse(200, TRUE, <<FullRow>>)),
      Operation([op |-> "search", query |-> RoutingQuery, max_results |-> 3],
                UpstreamError("ConnectError", "\"ConnectError\"")),
      Operation([op |-> "proxy_chat",
                 body |-> [type |-> "dict", val |-> [messages |-> <<"m1">>]]],
                UpstreamResponse(200, <<"{", "\"id\"", ":", "1", "}">>)),
      Operation([op |-> "chat",
                 body |-> [type |-> "dict", val |-> [messages |-> <<"m1">>]]],
                UpstreamResponse(404, <<"{", "\"error\"", ":", "\"ok\"", "}">>)) }

ConcInit ==
    /\ \/ /\ env = Env("sk-key", "", "https://sb", "sb-key")
          /\ files = <<>>
       \/ /\ env = Env("sk-key", "https://proxy", "", "")
          /\ files = SampleDir
    /\ \E ops \in [Procs -> ConcOperations] :
          /\ req = [p \in Procs |-> ops[p].req]
          /\ upstream = [p \in Procs |-> ops[p].upstream]
    /\ pc = [p \in Procs |-> "ready"]
    /\ sent = [p \in Procs |-> <<>>]
    /\ locals = [p \in Procs |-> ConcNoLocals]
    /\ out = [p \in Procs |-> NoOutcome]
    /\ SYMBOLS_CONTEXT = ContextNone

\* invocation p's handler moves to position r.pc with outcome r.out, having
\* sent r.sent
ConcStep(p, r) ==
    /\ pc' = [pc EXCEPT ![p] = r.pc]
    /\ out' = [out EXCEPT ![p] = r.out]
    /\ sent' = [sent EXCEPT ![p] = sent[p] \o r.sent]

conc_chat(p) ==
    /\ pc[p] = "ready" /\ req[p].op = "chat"
    /\ ConcStep(p, ChatBegin(env.apiKey, req[p].body))
    /\ UNCHANGED <<env, files, upstream, req, SYMBOLS_CONTEXT, locals>>

conc_chat_reply(p) ==
    /\ pc[p] = "awaiting" /\ req[p].op = "chat"
    /\ ConcStep(p, Step("done", ChatEnd(upstream[p]), <<>>))
    /\ UNCHANGED <<env, files, upstream, req, SYMBOLS_CONTEXT, locals>>

conc_proxy_chat(p) ==
    /\ pc[p] = "ready" /\ req[p].op = "proxy_chat"
    /\ ConcStep(p, ProxyChatBegin(env.apiKey, req[p].body))
    /\ UNCHANGED <<env, files, upstream, req, SYMBOLS_CONTEXT, locals>>

conc_proxy_chat_reply(p) ==
    /\ pc[p] = "awaiting" /\ req[p].op = "proxy_chat"
    /\ ConcStep(p, Step("done", ProxyChatEnd(upstream[p]), <<>>))
    /\ UNCHANGED <<env, files, upstream, req, SYMBOLS_CONTEXT, locals>>

\* a generation tool: ctx = _get_symbols_context(), the prompt, and
\* _call_openrouter up to its await
conc_tool_call(p) ==
    /\ pc[p] = "ready" /\ req[p].op = "tool"
    /\ SYMBOLS_CONTEXT' = GetSymbolsContext(SYMBOLS_CONTEXT, files)
    /\ locals' = [locals EXCEPT
                    ![p].ctx = GetSymbolsContext(SYMBOLS_CONTEXT, files).value,
                    ![p].built = ContextIsNone(SYMBOLS_CONTEXT)]
    /\ ConcStep(p, CallOpenRouterBegin(env, req[p].tool, req[p].prompt))
    /\ UNCHANGED <<env, files, upstream, req>>

conc_tool_reply(p) ==
    /\ pc[p] = "awaiting" /\ req[p].op = "tool"
    /\ ConcStep(p, Step("done", CallOpenRouterEnd(req[p].tool, upstream[p]), <<>>))
    /\ UNCHANGED <<env, files, upstream, req, SYMBOLS_CONTEXT, locals>>

\* mutant: `results` is a list of the module, so the scan starts from what
\* an earlier lookup left in it
conc_search_local_shared(p) ==
    /\ pc[p] = "ready" /\ req[p].op = "search"
    /\ RemoteSearchOff(env)
    /\ LET keywords == Keywords(req[p].query)
           earlier == { q \in Procs : pc[q] = "done" /\ req[q].op = "search" }
           left == IF earlier = {} THEN <<>>
                   ELSE locals[CHOOSE q \in earlier : TRUE].results
           scan == ScanFrom(files, keywords, req[p].max_results, 1, left) IN
          /\ locals' = [locals EXCEPT ![p].keywords = keywords,
                                      ![p].results = scan.results,
                                      ![p].read = scan.read]
          /\ ConcStep(p, Step("done", SearchReturn(scan.results, req[p].query),
                              <<>>))
    /\ UNCHANGED <<env, files, upstream, req, SYMBOLS_CONTEXT>>

conc_search_local(p) ==
    /\ pc[p] = "ready" /\ req[p].op = "search"
    /\ RemoteSearchOff(env)
    /\ LET keywords == Keywords(req[p].query)
           scan == LocalScan(files, keywords, req[p].max_results) IN
          /\ locals' = [locals EXCEPT ![p].keywords = keywords,
                                      ![p].results = scan.results,
                                      ![p].read = scan.read]
          /\ ConcStep(p, Step("done", SearchReturn(scan.results, req[p].query),
                              <<>>))
    /\ UNCHANGED <<env, files, upstream, req, SYMBOLS_CONTEXT>>

conc_search_remote(p) ==
    /\ pc[p] = "ready" /\ req[p].op = "search"
    /\ ~RemoteSearchOff(env)
    /\ LET keywords == Keywords(req[p].query)
           scan == LocalScan(files, keywords, req[p].max_results) IN
          locals' = [locals EXCEPT ![p].keywords = keywords,
                                   ![p].results = scan.results,
                                   ![p].read = scan.read]
    /\ ConcStep(p, Step("awaiting", NoOutcome,
                        << Call("supabase",
                                [query_text |-> req[p].query,
                                 match_count |-> req[p].max_results]) >>))
    /\ UNCHANGED <<env, files, upstream, req, SYMBOLS_CONTEXT>>

conc_search_reply(p) ==
    /\ pc[p] = "awaiting" /\ req[p].op = "search"
    /\ LET results == SupabaseResults(upstream[p], req[p].max_results)
                          \o locals[p].results IN
          ConcStep(p, Step("done",
                           IF Len(results) > 0
                           THEN [kind |-> "results",
                                 results |-> Prefix(results, req[p].max_results),
                                 query |-> req[p].query]
                           ELSE SearchReturn(<<>>, req[p].query),
                           <<>>))
    /\ UNCHANGED <<env, files, upstream, req, SYMBOLS_CONTEXT, locals>>

ConcNext ==
    \E p \in Procs :
        \/ conc_chat(p)
        \/ conc_chat_reply(p)
        \/ conc_proxy_chat(p)
        \/ conc_proxy_chat_reply(p)
        \/ conc_tool_call(p)
        \/ conc_tool_reply(p)
        \/ conc_search_local(p)
        \/ conc_search_remote(p)
        \/ conc_search_reply(p)

ConcSpec == ConcInit /\ [][ConcNext]_vars

(***************************************************************************)
(* The two gateway implementations side by side: the same credential, the  *)
(* same request body and the same upstream reply given to Flask chat       *)
(* (invocation 1) and to FastAPI proxy_chat (invocation 2).                *)
(***************************************************************************)
FlaskChat == 1
FastApiChat == 2

\* a body and the upstream reply, given to both handlers
PairOf(body, reply) ==
    /\ req = <<[op |-> "chat", body |-> body],
               [op |-> "proxy_chat", body |-> body]>>
    /\ upstream = <<reply, reply>>

PairInit ==
    /\ files = SampleDir
    /\ \/ /\ env \in { Env(k, "", "", "") : k \in ApiKeys }
          /\ \E body \in DictBodies \cup OtherBodies :
                \E reply \in NarrowReplies : PairOf(body, reply)
       \/ /\ env = Env("sk-key", "", "", "")
          /\ \E body \in ProbeBodies :
                \E reply \in WideReplies : PairOf(body, reply)
    /\ pc = <<"ready", "ready">>
    /\ sent = <<<<>>, <<>>>>
    /\ locals = <<ConcNoLocals, ConcNoLocals>>
    /\ out = <<NoOutcome, NoOutcome>>
    /\ SYMBOLS_CONTEXT = ContextNone

PairNext ==
    \/ conc_chat(FlaskChat)
    \/ conc_chat_reply(FlaskChat)
    \/ conc_proxy_chat(FastApiChat)
    \/ conc_proxy_chat_reply(FastApiChat)

PairSpec == PairInit /\ [][PairNext]_vars

(***************************************************************************)
(* Properties of the gateway.                                              *)
(***************************************************************************)
IsGateway == req.op \in {"chat", "proxy_chat"}

\* the body is a JSON object without a `messages` key (the empty object too)
LacksMessages == req.body.type = "dict" /\ "messages" \notin DOMAIN req.body.val

\* the response is a JSON object holding exactly the key "error"
IsErrorPayload(o) ==
    /\ o.kind = "response"
    /\ LET v == JsonLoads(o.body) IN
          /\ v.type = "dict"
          /\ Len(v.members) = 1
          /\ v.members[1][1] = "\"error\""

\* the text under "error" in an error payload
ErrorText(o) == JsonLoads(o.body).members[1][2]

\* C1 as stated: every chat request whose JSON body is empty or has no
\* `messages` key is answered with 400 and an {error} payload, by both
\* handlers, and nothing is sent upstream.
C1_MissingMessagesAlways400 ==
    (IsGateway /\ LacksMessages) =>
        /\ sent = <<>>
        /\ pc = "done" =>
              (out.status = 400 /\ IsErrorPayload(out))

\* C1 amended: when a credential is configured, every chat request whose
\* body is a JSON object that is empty or has no `messages` key is answered
\* with 400 and an {error} payload, by both handlers, and nothing is sent
\* upstream; without a credential such a request sends nothing upstream
\* either (and is answered with 500).
C1_MissingMessages400 ==
    (IsGateway /\ LacksMessages) =>
        /\ sent = <<>>
        /\ (pc = "done" /\ ~KeyMissing(env.apiKey)) =>
              (out.status = 400 /\ IsErrorPayload(out) /\ out.exc = "none")
        /\ (pc = "done" /\ KeyMissing(env.apiKey)) => out.status = 500

C1_Witness ==
    /\ req.op = "proxy_chat" /\ pc = "done"
    /\ ~KeyMissing(env.apiKey)
    /\ LacksMessages /\ DOMAIN req.body.val = {"model", "stream"}
    /\ out.status = 400

\* C2: with no credential configured, every chat request is answered with
\* 500 whatever its body is, and nothing is sent upstream.
C2_NoCredential500 ==
    (IsGateway /\ KeyMissing(env.apiKey)) =>
        /\ sent = <<>>
        /\ pc = "done" => out.status = 500

\* C3: every chat request ends in one response that is the upstream JSON
\* with 200 or an {error} payload with 400 or 500, and no exception
\* escapes the handler.
C3_ResponseOrErrorNoEscape ==
    (IsGateway /\ pc = "done") =>
        /\ out.kind = "response"
        /\ out.exc = "none"
        /\ \/ out.status = 200
           \/ out.status \in {400, 500} /\ IsErrorPayload(out)

\* what the caller asked for a field, or the default
CallerOrDefault(field, default) ==
    IF field \in DOMAIN req.body.val THEN req.body.val[field] ELSE default

\* C4: the payload forwarded for an accepted chat request has exactly the
\* fields model, messages, max_tokens and temperature; messages is the
\* caller's list unchanged, each other field is the caller's value when
\* supplied and the default otherwise; no other field is forwarded.
C4_ForwardedPayload ==
    (IsGateway /\ sent # <<>>) =>
        LET payload == sent[1].payload IN
        /\ req.body.type = "dict"
        /\ sent[1].to = "openrouter"
        /\ DOMAIN payload = {"model", "messages", "max_tokens", "temperature"}
        /\ payload.messages = req.body.val["messages"]
        /\ payload.model = CallerOrDefault("model", "openai/gpt-4.1-mini")
        /\ payload.max_tokens = CallerOrDefault("max_tokens", 4000)
        /\ payload.temperature = CallerOrDefault("temperature", "0.7")

C4_Witness ==
    /\ req.op = "chat" /\ pc = "awaiting"
    /\ DOMAIN req.body.val = {"messages", "max_tokens", "stream"}
    /\ req.body.val["max_tokens"] = 0
    /\ req.body.val["messages"] = <<"m2", "m1">>
    /\ sent[1].payload.max_tokens = 0
    /\ sent[1].payload.temperature = "0.7"

\* the upstream call succeeded and its body is JSON
UpstreamSucceeded ==
    /\ upstream.kind = "response"
    /\ upstream.status \in 200..299
    /\ JsonLoads(upstream.text) # JSONDecodeError

\* C5: when the upstream call succeeds, the response is 200 and its body is
\* the upstream JSON body: the same value, nothing added, removed or
\* rewritten.
C5_RelayUnchanged ==
    (IsGateway /\ pc = "done" /\ sent # <<>> /\ UpstreamSucceeded) =>
        /\ out.kind = "response"
        /\ out.status = 200
        /\ JsonLoads(out.body) # JSONDecodeError
        /\ PyEq(JsonLoads(out.body), JsonLoads(upstream.text))
        /\ PyEq(JsonLoads(upstream.text), JsonLoads(out.body))

C5_Witness ==
    /\ req.op = "proxy_chat" /\ pc = "done" /\ sent # <<>>
    /\ upstream.status = 201
    /\ Len(JsonLoads(upstream.text).members) = 2
    /\ out.status = 200
    /\ out.body # upstream.text

\* the upstream call failed: transport error, timeout, or non-2xx status
UpstreamFailed ==
    \/ upstream.kind = "error"
    \/ upstream.kind = "response" /\ upstream.status \notin 200..299

\* the text of the failure the handler caught
FailureText ==
    IF upstream.kind = "error" THEN upstream.msg
    ELSE StatusMessage(upstream.status)

\* C6: when the upstream call fails (transport error, timeout, non-2xx
\* status) the response is 500 with an {error} payload carrying the error
\* text; a failure never becomes a 200.
C6_UpstreamFailure500 ==
    (IsGateway /\ pc = "done" /\ sent # <<>> /\ UpstreamFailed) =>
        /\ out.status = 500
        /\ out.status # 200
        /\ IsErrorPayload(out)
        /\ ErrorText(out) = FailureText

C6_Witness ==
    /\ req.op = "chat" /\ pc = "done" /\ sent # <<>>
    /\ upstream.kind = "response" /\ upstream.status = 302
    /\ JsonLoads(upstream.text) # JSONDecodeError
    /\ out.status = 500

\* the request was rejected for a missing credential or missing messages
Rejected ==
    /\ IsGateway
    /\ \/ KeyMissing(env.apiKey)
       \/ req.body.type # "dict"
       \/ "messages" \notin DOMAIN req.body.val

\* C7: no retries.  Every chat request and every generation-tool invocation
\* sends at most one chat-completion call and none after it has failed; a
\* rejected request sends none; search_symbols_docs sends at most one
\* vector-search call, and none when remote search is not configured.
C7_NoRetries ==
    /\ Len(sent) <= 1
    /\ pc = "ready" => sent = <<>>
    /\ Rejected => sent = <<>>
    /\ (req.op = "tool" /\ env.proxyUrl = "" /\ KeyMissing(env.apiKey)) =>
          sent = <<>>
    /\ (IsGateway \/ req.op = "tool") =>
          \A i \in 1..Len(sent) : sent[i].to \in {"openrouter", "proxy"}
    /\ req.op = "search" =>
          /\ \A i \in 1..Len(sent) : sent[i].to = "supabase"
          /\ (env.supabaseUrl = "" \/ env.supabaseKey = "") => sent = <<>>

C7_Witness ==
    /\ req.op = "chat" /\ pc = "done"
    /\ upstream.kind = "error" /\ upstream.exc = "ReadTimeout"
    /\ out.status = 500
    /\ Len(sent) = 1

(***************************************************************************)
(* Properties of the lookup.                                               *)
(***************************************************************************)
\* the search handler has computed its keywords and local results
SearchScanned == req.op = "search" /\ pc \in {"awaiting", "done"}

\* the whitespace-separated words of s: the <<first, last>> positions of its
\* maximal runs of characters that are not whitespace
WordsOf(s) ==
    { w \in (1..Len(s)) \X (1..Len(s)) :
        /\ w[1] <= w[2]
        /\ \A i \in w[1]..w[2] : s[i] \notin {" ", "\n", "\t"}
        /\ w[1] = 1 \/ s[w[1] - 1] \in {" ", "\n", "\t"}
        /\ w[2] = Len(s) \/ s[w[2] + 1] \in {" ", "\n", "\t"} }

\* the words longer than two characters
LongWordsOf(s) == { w \in WordsOf(s) : w[2] - w[1] + 1 > 2 }

\* C8: the keyword list is exactly the whitespace-separated words of the
\* lowercased query that are longer than two characters, in order; when no
\* word qualifies it is the single element made of the whole lowercased
\* query; it is never empty.
C8_Keywords ==
    SearchScanned =>
        LET q == Lower(req.query)
            long == LongWordsOf(q)
            keywords == locals.keywords IN
        /\ Len(keywords) >= 1
        /\ long = {} => keywords = <<q>>
        /\ long # {} =>
              /\ Len(keywords) = Cardinality(long)
              /\ \A w \in long :
                    keywords[1 + Cardinality({v \in long : v[1] < w[1]})]
                        = SubSeq(q, w[1], w[2])
        /\ \A k \in 1..Len(keywords) : \A i \in 1..Len(keywords[k]) :
              keywords[k][i] \notin {"A", "B", "C", "R"}

C8_Witness ==
    /\ SearchScanned
    /\ Len(locals.keywords) = 2
    /\ Cardinality(WordsOf(req.query)) = 2
    /\ req.query # Lower(req.query)

C8_WitnessFallback ==
    /\ SearchScanned
    /\ Cardinality(WordsOf(req.query)) = 2
    /\ locals.keywords = <<Lower(req.query)>>

\* the file of the directory with this name
FileNamed(name) == files[CHOOSE k \in 1..Len(files) : files[k].name = name]

\* the line holds a keyword, case-insensitively
LineHolds(line, keywords) ==
    \E k \in 1..Len(keywords) : Contains(Lower(line), keywords[k])

\* C9: the snippet of every local result is exactly the document's lines
\* with indices in [max(0, i-2), min(n, i+20)) joined by newlines, i being
\* the index of the first line that contains a keyword and n the number of
\* lines; so it contains a line holding a keyword and has 1 to 22 lines.
C9_SnippetWindow ==
    SearchScanned =>
        \A r \in 1..Len(locals.results) :
            LET lines == SplitLines(FileNamed(locals.results[r].file).content)
                n == Len(lines)
                hits == { j \in 0..(n - 1) :
                            LineHolds(lines[j + 1], locals.keywords) }
                snippet == SplitLines(locals.results[r].snippet) IN
            /\ hits # {}
            /\ LET i == CHOOSE j \in hits : \A h \in hits : j <= h
                   first == IF i - 2 > 0 THEN i - 2 ELSE 0
                   last == IF i + 20 < n THEN i + 20 ELSE n IN
               /\ Len(snippet) = last - first
               /\ \A j \in first..(last - 1) : snippet[j - first + 1] = lines[j + 1]
               /\ locals.results[r].snippet
                      = JoinLines([j \in 1..(last - first) |-> lines[first + j]])
            /\ Len(snippet) \in 1..22
            /\ \E j \in 1..Len(snippet) : LineHolds(snippet[j], locals.keywords)

\* a snippet of 22 lines cut at both ends
C9_Witness ==
    /\ SearchScanned
    /\ Len(locals.results) = 1
    /\ Len(SplitLines(locals.results[1].snippet)) = 22
    /\ Len(SplitLines(files[1].content)) > 24
    /\ LineHolds(SplitLines(locals.results[1].snippet)[3], locals.keywords)
    /\ ~LineHolds(SplitLines(locals.results[1].snippet)[1], locals.keywords)

C9_WitnessRouting ==
    /\ SearchScanned
    /\ req.query = RoutingQuery
    /\ Len(locals.results) >= 1
    /\ \E j \in 1..Len(SplitLines(locals.results[1].snippet)) :
          Contains(Lower(SplitLines(locals.results[1].snippet)[j]),
                   <<"r", "o", "u", "t", "i", "n", "g">>)

\* the positions in the directory of the documents whose lowercased content
\* contains a keyword
MatchingDocs ==
    { k \in 1..Len(files) :
        \E w \in 1..Len(locals.keywords) :
            Contains(Lower(files[k].content), locals.keywords[w]) }

\* the first n members of a set of positions
FirstOf(S, n) == { k \in S : Cardinality({j \in S : j < k}) < n }

\* C10: with remote search not configured and max_results >= 1, the lookup
\* returns exactly min(max_results, number of matching documents) results,
\* at most one per document, in directory order, and stops scanning once
\* max_results results are collected.
C10_ResultCount ==
    (req.op = "search" /\ pc = "done" /\ env.supabaseUrl = ""
       /\ req.max_results >= 1) =>
        LET wanted == IF Cardinality(MatchingDocs) < req.max_results
                      THEN Cardinality(MatchingDocs) ELSE req.max_results
            taken == FirstOf(MatchingDocs, req.max_results) IN
        /\ Len(out.results) = wanted
        /\ \A r \in 1..Len(out.results) :
              \E k \in taken :
                 /\ files[k].name = out.results[r].file
                 /\ Cardinality({j \in taken : j < k}) = r - 1
        /\ locals.read = IF Cardinality(MatchingDocs) >= req.max_results
                         THEN CHOOSE k \in taken : \A j \in taken : j <= k
                         ELSE Len(files)

\* C11: max_results is bounded to 1-5: whatever integer the caller passes
\* (0, a negative value and a value above 5 included), the lookup returns
\* no more than 5 results and no more than max_results results (none at all
\* being the most a max_results below 1 allows).
C11_MaxResultsBound ==
    (req.op = "search" /\ pc = "done") =>
        /\ Len(out.results) <= 5
        /\ Len(out.results) <= (IF req.max_results < 0 THEN 0
                                ELSE req.max_results)

\* a result that came from the vector search / from the local lookup
IsRemoteResult(r) == "title" \in DOMAIN r
IsLocalResult(r) == "file" \in DOMAIN r

\* remote search is configured and answered with status 200
RemoteAnswered200 ==
    /\ req.op = "search"
    /\ env.supabaseUrl # "" /\ env.supabaseKey # ""
    /\ upstream.kind = "response" /\ upstream.status = 200

\* the reply is a JSON list whose rows are all objects
RowsWellFormed ==
    /\ upstream.isList
    /\ \A i \in 1..Len(upstream.rows) : upstream.rows[i].type = "dict"

\* the first n entries of a list (none when n is below 1)
FirstEntries(seq, n) ==
    [i \in 1..(IF n < 0 THEN 0 ELSE IF n < Len(seq) THEN n ELSE Len(seq))
       |-> seq[i]]

\* C12: when remote search is configured and answers with status 200, it is
\* queried with the raw query text (not lowercased, not tokenized); in the
\* returned list every remote result comes before every local result; the
\* returned list is the first max_results entries of the remote results
\* followed by the local results.
C12_RemoteFirstThenCut ==
    (RemoteAnswered200 /\ pc \in {"awaiting", "done"}) =>
        /\ Len(sent) = 1
        /\ sent[1].to = "supabase"
        /\ sent[1].payload.query_text = req.query
        /\ (pc = "done" /\ out.kind = "results") =>
              LET n == Len(out.results)
                  nr == Cardinality({i \in 1..n : IsRemoteResult(out.results[i])})
                  rows == FirstEntries(upstream.rows, req.max_results) IN
              /\ \A i \in 1..n : \A j \in 1..n :
                    (IsRemoteResult(out.results[i]) /\ IsLocalResult(out.results[j]))
                        => i < j
              /\ nr <= Len(rows)
              /\ \A i \in 1..nr :
                    /\ rows[i].type = "dict"
                    /\ "content" \in DOMAIN rows[i].val =>
                          out.results[i].content
                              = FirstEntries(rows[i].val.content, 1000)
                    /\ "title" \in DOMAIN rows[i].val =>
                          out.results[i].title = rows[i].val.title
              /\ n - nr <= Len(locals.results)
              /\ \A i \in (nr + 1)..n : out.results[i] = locals.results[i - nr]
              /\ Len(out.results) <= (IF req.max_results < 0 THEN 0
                                      ELSE req.max_results)
              /\ RowsWellFormed =>
                    LET total == Len(rows) + Len(locals.results)
                        wanted == IF req.max_results < 0 THEN 0
                                  ELSE req.max_results IN
                    /\ nr = Len(rows)
                    /\ n = IF total < wanted THEN total ELSE wanted

\* remote search is configured and its call failed: it raised (transport
\* error, timeout), answered with a status other than 200, or answered 200
\* with a malformed body (not a list, or a list with a row that is not an
\* object)
RemoteFailed ==
    /\ req.op = "search"
    /\ env.supabaseUrl # "" /\ env.supabaseKey # ""
    /\ \/ upstream.kind = "error"
       \/ upstream.status # 200
       \/ ~RowsWellFormed

\* what the lookup returns for the same query, max_results and documents
\* when remote search is not configured
LocalOnlyReturn ==
    SearchReturn(LocalScan(files, Keywords(req.query), req.max_results).results,
                 req.query)

\* C13: when remote search is configured but its call fails, the lookup
\* does not raise and returns exactly what the local-only lookup returns for
\* the same query, max_results and documents.
C13_RemoteFailureFallsBack ==
    (RemoteFailed /\ pc = "done") =>
        /\ out.kind \in {"results", "no_results"}
        /\ out = LocalOnlyReturn

\* the local results that come from the k-th document
ResultsFrom(k) ==
    { r \in 1..Len(locals.results) : locals.results[r].file = files[k].name }

\* the local results that come from documents before the k-th
CollectedBefore(k) ==
    { r \in 1..Len(locals.results) :
        \E j \in 1..(k - 1) : locals.results[r].file = files[j].name }

\* C20: in the local lookup, every document whose lowercased content holds
\* a keyword yields exactly one result (unless max_results results were
\* collected before it) and every document whose content holds no keyword
\* yields none, for every query, those whose fallback keyword holds
\* whitespace or line breaks included.
C20_OneResultPerMatchingDoc ==
    SearchScanned =>
        \A k \in 1..Len(files) :
            /\ (k \in MatchingDocs
                  /\ Cardinality(CollectedBefore(k)) < req.max_results) =>
                    Cardinality(ResultsFrom(k)) = 1
            /\ k \notin MatchingDocs => ResultsFrom(k) = {}

(***************************************************************************)
(* Properties of the post-processing of the generation tools.              *)
(***************************************************************************)
\* the language tags an opening fence may carry (none, javascript, js, json)
LanguageTags ==
    { <<>>,
      <<"j", "a", "v", "a", "s", "c", "r", "i", "p", "t">>,
      <<"j", "s">>,
      <<"j", "s", "o", "n">> }

\* text = three backquotes, tag, newline, body, newline, three backquotes,
\* with no backquote in the body
IsFencedWith(text, tag) ==
    LET open == 3 + Len(tag) IN
    /\ Len(text) >= open + 5
    /\ \A i \in 1..3 : text[i] = "BACKQUOTE"
    /\ \A i \in 1..Len(tag) : text[3 + i] = tag[i]
    /\ text[open + 1] = "\n"
    /\ text[Len(text) - 3] = "\n"
    /\ \A i \in (Len(text) - 2)..Len(text) : text[i] = "BACKQUOTE"
    /\ \A i \in (open + 2)..(Len(text) - 4) : text[i] # "BACKQUOTE"

\* the body of a text fenced with this tag
FencedBody(text, tag) ==
    [i \in 1..(Len(text) - Len(tag) - 8) |-> text[3 + Len(tag) + 1 + i]]

\* s without its leading and trailing whitespace
Trimmed(s) ==
    LET inked == { i \in 1..Len(s) : s[i] \notin {" ", "\n", "\t"} } IN
    IF inked = {} THEN <<>>
    ELSE LET first == CHOOSE i \in inked : \A j \in inked : i <= j
             last == CHOOSE i \in inked : \A j \in inked : j <= i IN
         [i \in 1..(last - first + 1) |-> s[first + i - 1]]

\* C14: for every response of the form opening fence (optionally tagged
\* javascript, js or json), newline, body, newline, closing fence, the body
\* holding no backquote, _clean_code_response returns exactly the body with
\* its surrounding whitespace trimmed: no fence marker and no remnant of the
\* language tag is left.
C14_FencedBodyExactly ==
    (req.op = "clean" /\ pc = "done") =>
        \A tag \in LanguageTags :
            IsFencedWith(req.text, tag) =>
                out.body = Trimmed(FencedBody(req.text, tag))

\* the tools whose answer is code, and the two whose answer is prose
CodeTools ==
    { "generate_component", "generate_page", "generate_project",
      "create_design_system", "convert_to_symbols" }

ProseTools == { "explain_symbols_concept", "review_symbols_code" }

\* the model wrapped its whole answer in one pair of fences
WrappedInFences(text) ==
    \E tag \in LanguageTags : IsFencedWith(Trimmed(text), tag)

BeginsWithFence(text) ==
    Len(text) >= 3 /\ \A i \in 1..3 : text[i] = "BACKQUOTE"

EndsWithFence(text) ==
    Len(text) >= 3 /\ \A i \in (Len(text) - 2)..Len(text) : text[i] = "BACKQUOTE"

\* a generation tool returned after the model answered with text wrapped
\* in fences
ToolReturnedFenced ==
    /\ req.op = "tool" /\ pc = "done"
    /\ out.kind = "returned" /\ sent # <<>>
    /\ WrappedInFences(upstream.content)

\* C15 as stated: every generation tool (the seven of them) strips the
\* fences, so no tool returns text that begins or ends with a fence marker
\* when the model wrapped its whole answer in fences.
C15_EveryToolStripsFences ==
    ToolReturnedFenced =>
        (~BeginsWithFence(out.body) /\ ~EndsWithFence(out.body))

\* C15 amended: the five tools that return code (generate_component,
\* generate_page, generate_project, create_design_system,
\* convert_to_symbols) strip the fences: when the model wrapped its whole
\* answer in one pair of fences, what they return neither begins nor ends
\* with a fence marker and holds no backquote at all; explain_symbols_concept
\* and review_symbols_code return the model's answer unchanged.
C15_CodeToolsStripFences ==
    /\ (ToolReturnedFenced /\ req.tool \in CodeTools) =>
          /\ ~BeginsWithFence(out.body)
          /\ ~EndsWithFence(out.body)
          /\ \A i \in 1..Len(out.body) : out.body[i] # "BACKQUOTE"
    /\ (req.op = "tool" /\ pc = "done" /\ out.kind = "returned"
          /\ sent # <<>> /\ req.tool \in ProseTools) =>
          out.body = upstream.content

C15_Witness ==
    /\ ToolReturnedFenced
    /\ req.tool = "convert_to_symbols"
    /\ IsFencedWith(Trimmed(upstream.content), <<"j", "s">>)
    /\ upstream.content # Trimmed(upstream.content)
    /\ out.body = <<"x", " ", "y">>

\* a prose tool handing back a fenced answer as it came
C15_WitnessProse ==
    /\ ToolReturnedFenced
    /\ req.tool = "review_symbols_code"
    /\ BeginsWithFence(out.body)

\* the tools expected to return JSON
JsonTools == { "generate_project", "create_design_system" }

\* the chat completion arrived: a 2xx reply whose JSON carries the choices
CompletionArrived ==
    /\ sent # <<>>
    /\ upstream.kind = "response" /\ upstream.status \in 200..299
    /\ LET result == JsonLoads(upstream.text) IN
          /\ result.type = "dict"
          /\ \E i \in 1..Len(result.members) :
                result.members[i] = <<"\"choices\"", "[choices]">>

\* a JSON tool ran to its end on a string _call_openrouter returned: the
\* model's answer, or the message it returns when no credential is set
JsonToolDone ==
    /\ req.op = "tool" /\ req.tool \in JsonTools
    /\ pc = "done"
    /\ sent = <<>> \/ CompletionArrived

\* the cleaned response: that string after the fence stripping
CleanedResponse ==
    CleanCodeResponse(IF sent = <<>> THEN NoCredentialMessage
                      ELSE upstream.content)

\* C16: for generate_project and create_design_system, when the cleaned
\* response is valid JSON the tool returns a re-serialization of it that
\* parses back to a structure equal to the one parsed from the cleaned
\* response.
C16_JsonRoundTrip ==
    (JsonToolDone /\ JsonLoads(CleanedResponse) # JSONDecodeError) =>
        /\ out.kind = "returned"
        /\ JsonLoads(out.body) # JSONDecodeError
        /\ PyEq(JsonLoads(out.body), JsonLoads(CleanedResponse))
        /\ PyEq(JsonLoads(CleanedResponse), JsonLoads(out.body))

\* an object of two members, written back differently from how it came
C16_Witness ==
    /\ JsonToolDone /\ req.tool = "create_design_system"
    /\ JsonLoads(CleanedResponse).type = "dict"
    /\ Len(JsonLoads(CleanedResponse).members) = 2
    /\ out.body # CleanedResponse
    /\ upstream.content # CleanedResponse

\* C17: for generate_project and create_design_system, when the cleaned
\* response is not valid JSON the tool returns that cleaned text unchanged
\* and no parse exception is raised.
C17_RawTextFallback ==
    (JsonToolDone /\ JsonLoads(CleanedResponse) = JSONDecodeError) =>
        /\ out.kind = "returned"
        /\ out.exc = "none"
        /\ out.body = CleanedResponse

\* a json-tagged fenced object: the cleaned text keeps "on" and is not JSON
C17_Witness ==
    /\ JsonToolDone /\ req.tool = "generate_project"
    /\ IsFencedWith(upstream.content, <<"j", "s", "o", "n">>)
    /\ JsonLoads(CleanedResponse) = JSONDecodeError
    /\ out.body = CleanedResponse
    /\ Len(out.body) > 2

(***************************************************************************)
(* Properties of interleaved operations.                                   *)
(***************************************************************************)
\* the invocations that have called _get_symbols_context()
ContextObservers == { p \in Procs : req[p].op = "tool" /\ pc[p] # "ready" }

\* the invocations whose call ran _build_symbols_system_context()
ContextBuilders == { p \in Procs : locals[p].built }

\* the build ran at most once, and every invocation that asked for the
\* context got the same value, the one the cache holds
BuiltOnceSeenByAll ==
    /\ Cardinality(ContextBuilders) <= 1
    /\ ContextObservers # {} =>
          /\ Cardinality(ContextBuilders) = 1
          /\ SYMBOLS_CONTEXT.isNone = FALSE
    /\ \A p \in ContextObservers : locals[p].ctx = SYMBOLS_CONTEXT.value
    /\ \A p \in ContextObservers : \A q \in ContextObservers :
          locals[p].ctx = locals[q].ctx

\* C18: the shared documentation context is single-assignment: across any
\* sequence and interleaving of tool invocations the build runs at most
\* once, the cached value is never reassigned once set (an empty built
\* value included), and every invocation observes the same context value.
C18_SingleAssignment ==
    [][ /\ SYMBOLS_CONTEXT.isNone = FALSE => SYMBOLS_CONTEXT' = SYMBOLS_CONTEXT
        /\ BuiltOnceSeenByAll' ]_vars

\* two tool invocations interleaved on an empty built context: the first
\* is still awaiting its completion when the second has returned
C18_Witness ==
    /\ \E p \in Procs : \E q \in Procs :
          /\ p < q
          /\ req[p].op = "tool" /\ req[q].op = "tool"
          /\ pc[p] = "awaiting" /\ pc[q] = "done"
          /\ locals[p].built /\ ~locals[q].built
          /\ locals[q].ctx = <<>>
    /\ SYMBOLS_CONTEXT = [isNone |-> FALSE, value |-> <<>>]

\* two invocations with the same parameters and the same upstream reply
\* ended the same way: same result, same outbound calls, same local results
SameInputsSameResult ==
    \A p \in Procs : \A q \in Procs :
        (req[p] = req[q] /\ upstream[p] = upstream[q]
           /\ pc[p] = "done" /\ pc[q] = "done") =>
            /\ out[p] = out[q]
            /\ sent[p] = sent[q]
            /\ locals[p].results = locals[q].results
            /\ locals[p].ctx = locals[q].ctx

\* a step leaves the configuration and the documents alone, touches the
\* cache only to set it from None, and changes the position, outbound calls,
\* locals and outcome of one invocation at most
OnlyOwnState ==
    /\ env' = env /\ files' = files
    /\ req' = req /\ upstream' = upstream
    /\ SYMBOLS_CONTEXT' # SYMBOLS_CONTEXT => SYMBOLS_CONTEXT.isNone
    /\ \E p \in Procs : \A q \in Procs \ {p} :
          /\ pc'[q] = pc[q] /\ out'[q] = out[q]
          /\ sent'[q] = sent[q] /\ locals'[q] = locals[q]

\* C19: requests are independent and stateless: no gateway request and no
\* tool invocation modifies process-wide state other than the memoized
\* context, and the result of an operation depends only on its parameters,
\* the configuration, the documents and the upstream reply, not on the
\* operations that ran before it or run concurrently with it.
C19_IndependentStateless ==
    [][ OnlyOwnState /\ SameInputsSameResult' ]_vars

\* two lookups with the same parameters have returned results while a tool
\* invocation that ran between them is still awaiting its completion
C19_Witness ==
    \E p \in Procs : \E q \in Procs : \E r \in Procs :
        /\ p # q
        /\ req[p].op = "search" /\ req[p] = req[q]
        /\ pc[p] = "done" /\ pc[q] = "done"
        /\ out[p].kind = "results" /\ out[q] = out[p]
        /\ Len(locals[p].results) >= 1
        /\ req[r].op = "tool" /\ pc[r] = "awaiting"

(***************************************************************************)
(* Properties of the two gateway implementations.                          *)
(***************************************************************************)
\* C21: the two gateway implementations are equivalent: for the same
\* credential configuration, the same request body and the same upstream
\* reply, Flask chat and FastAPI proxy_chat forward the same payload
\* upstream and return the same status code and the same response body.
C21_GatewaysEquivalent ==
    /\ (pc[FlaskChat] # "ready" /\ pc[FastApiChat] # "ready") =>
          sent[FlaskChat] = sent[FastApiChat]
    /\ (pc[FlaskChat] = "done" /\ pc[FastApiChat] = "done") =>
          /\ out[FlaskChat].status = out[FastApiChat].status
          /\ out[FlaskChat].body = out[FastApiChat].body

(***************************************************************************)
(* Properties of _clean_code_response applied twice.                       *)
(***************************************************************************)
\* C22: _clean_code_response is idempotent: for every input text, cleaning
\* the cleaned text again returns the same text, so one pass removes every
\* leading and trailing fence marker the function would ever remove.
C22_CleanIdempotent ==
    (req.op = "clean" /\ pc = "done") =>
        CleanCodeResponse(out.body) = out.body

====
